---- MODULE Spec2Model ----
(***************************************************************************)
(* The Ralph loop: the phase transition engine (hooks/ralph_loop_engine.py)*)
(* and the bootstrapper (hooks/ralph_init.py), as processes that read and  *)
(* write files.  Every step is one interaction with the world outside the  *)
(* process (a file read, a truncating open, a write, a command, a write to *)
(* standard output) together with the local computation that precedes it.  *)
(*                                                                         *)
(* A Python dict is a function from its keys; d.get(k, default) is Get and *)
(* d[k] = v is Put.  A JSON file is the value json.load gives for it, with *)
(* a kind for the cases in which there is no such value.                   *)
(***************************************************************************)
EXTENDS Integers, Sequences, FiniteSets, TLC

\* ------------------------------------------------------------------ bounds
MaxPhases == 3      \* longest configured phase list
MaxIter == 3        \* the agent stops reporting once iteration reaches this
MaxHist == 1        \* longest history the agent records

\* ------------------------------------------------------------ python values
None == "<None>"
EmptyDict == [k \in {} |-> None]

Get(d, k, default) == IF k \in DOMAIN d THEN d[k] ELSE default

Put(d, k, v) == [x \in (DOMAIN d) \cup {k} |-> IF x = k THEN v ELSE d[x]]

Drop(d, k) == [x \in (DOMAIN d) \ {k} |-> d[x]]

Range(s) == {s[i] : i \in DOMAIN s}

\* list.index where x is in the list: the 0-based position of its first occurrence
index(list, x) ==
    (CHOOSE i \in DOMAIN list :
         list[i] = x /\ \A j \in DOMAIN list : list[j] = x => i <= j) - 1

\* str.lower on the phase names in use
lower(s) ==
    CASE s = "PLAN" -> "plan"
      [] s = "BUILD" -> "build"
      [] s = "TEST" -> "test"
      [] s = "DEPLOY" -> "deploy"
      [] s = "REVIEW" -> "review"
      [] OTHER -> s

\* ------------------------------------------------------------------- files
EngineDefaultStateFile == ".gemini/ralph/state.json"
InitDefaultStateFile == ".ralph_state.json"
CustomStateFile == "loop_state.json"
EngineDefaultPromptsDir == ".gemini/ralph/prompts"
InitDefaultPromptsDir == "prompts"

Paths == {EngineDefaultStateFile, InitDefaultStateFile, CustomStateFile}

Absent == [kind |-> "absent", val |-> EmptyDict]
Corrupt == [kind |-> "corrupt", val |-> EmptyDict]
Malformed == [kind |-> "malformed", val |-> EmptyDict]
JsonDict(d) == [kind |-> "dict", val |-> d]
\* JSON that is not an object (a list): json.load returns it, and it has no get
JsonArray == [kind |-> "array", val |-> EmptyDict]
\* what open(path, "w") leaves until the data is written: a file of no bytes.
\* val keeps the record that was there, for the properties only: no process
\* reads the val of a file that is not of kind "dict".
Truncated(f) == [kind |-> "empty", val |-> f.val]

\* ------------------------------------------------------------------ config
PhaseNames == <<"PLAN", "BUILD", "TEST", "DEPLOY", "REVIEW">>
CleanupCmd == "git reset --hard"
HookCmd == "python3 scripts/profile.py"

PhaseLists == {SubSeq(PhaseNames, 1, n) : n \in 0..MaxPhases}

\* phase_scripts: key absent, a script for every phase, or an empty script
ScriptChoices(phases) ==
    {EmptyDict, [ph \in Range(phases) |-> HookCmd]}
        \cup (IF phases = <<>> THEN {} ELSE {[ph \in {phases[1]} |-> ""]})

MkConfig(phases, cleanup, scripts, custom) ==
    LET c0 == Put(EmptyDict, "phases", phases)
        c1 == IF cleanup THEN Put(c0, "cleanup_command", CleanupCmd) ELSE c0
        c2 == IF scripts = EmptyDict THEN c1 ELSE Put(c1, "phase_scripts", scripts)
    IN  IF custom THEN Put(c2, "state_file", CustomStateFile) ELSE c2

ConfigDicts ==
    {EmptyDict} \cup
    UNION {{MkConfig(phases, cleanup, scripts, custom) :
                cleanup \in BOOLEAN, scripts \in ScriptChoices(phases),
                custom \in BOOLEAN} : phases \in PhaseLists}

\* the content of the configuration file: missing, not JSON, or a JSON object
ConfigFiles == {Absent, Malformed} \cup {JsonDict(c) : c \in ConfigDicts}

\* ------------------------------------------------------------------- state
Engines == {1, 2}

VARIABLES
    config,       \* content of the configuration file (both scripts' copies)
    files,        \* content of each state-file path
    pc,           \* per engine invocation: the step it is at
    state,        \* per engine: the local dict `state`
    loaded,       \* per engine: the state file as the invocation read it
    next_phase,   \* per engine: the local `next_phase`
    next_prompt_content, \* per engine: the local `next_prompt_content`
    events,       \* per engine: what the invocation did so far, in order
    response,     \* per engine: the payload written to standard output
    ipc,          \* the bootstrapper's step
    iout,         \* what the bootstrapper printed, in order
    ibefore       \* the bootstrapper's state file as its run found it, for the properties

vars == <<config, files, pc, state, loaded, next_phase, next_prompt_content,
          events, response, ipc, iout, ibefore>>

engineLocals == <<state, loaded, next_phase, next_prompt_content, events, response>>

NoResponse == EmptyDict

\* STATE_FILE of the engine and state_file of the bootstrapper
STATE_FILE == Get(config.val, "state_file", EngineDefaultStateFile)
state_file == Get(config.val, "state_file", InitDefaultStateFile)
PROMPTS_DIR == Get(config.val, "prompts_dir", EngineDefaultPromptsDir)

Init ==
    /\ config \in ConfigFiles
    /\ files = [path \in Paths |-> Absent]
    /\ pc = [p \in Engines |-> "idle"]
    /\ state = [p \in Engines |-> EmptyDict]
    /\ loaded = [p \in Engines |-> Absent]
    /\ next_phase = [p \in Engines |-> None]
    /\ next_prompt_content = [p \in Engines |-> EmptyDict]
    /\ events = [p \in Engines |-> <<>>]
    /\ response = [p \in Engines |-> NoResponse]
    /\ ipc = "idle"
    /\ iout = <<>>
    /\ ibefore = Absent

\* no invocation of either script is in flight
Quiet == ipc = "idle" /\ \A p \in Engines : pc[p] = "idle"

\* ------------------------------------------------------------ what is done
Ev(ev, arg) == [ev |-> ev, arg |-> arg]

Printed(text) == Ev("print", text)
Ran(command) == Ev("run", command)

Log(p, evs) == events' = [events EXCEPT ![p] = @ \o evs]

\* ------------------------------------------------------------- run_command
\* run_command(command), `ok` being whether the shell command exits with 0:
\* the value returned and what was printed and run
run_command(command, ok) ==
    IF command \in {None, ""}
    THEN [result |-> TRUE, events |-> <<>>]
    ELSE IF ok
    THEN [result |-> TRUE, events |-> <<Printed("Running"), Ran(command)>>]
    ELSE [result |-> FALSE,
          events |-> <<Printed("Running"), Ran(command), Printed("Command failed")>>]

\* whether the command is run at all: the outcome is drawn only when it is
Truthy(command) == command \notin {None, ""}

\* ----------------------------------------------------- the transition rules
ActsUnlessActive(current_status) == current_status # "ACTIVE"

\* step 4: the hook acts only on a reported status
Reported(current_status) == current_status \in {"COMPLETED", "FAILED"}

\* phases.index(current_phase), -1 on ValueError
current_idx(phases, current_phase) ==
    IF current_phase \in Range(phases) THEN index(phases, current_phase) ELSE -1

NoWrapNextIdx(phases, idx) ==
    IF idx + 1 >= Len(phases) THEN Len(phases) - 1 ELSE idx + 1

\* cyclic transition: A -> B -> C -> A
next_idx(phases, idx) == (idx + 1) % Len(phases)

IncrementTwice(st) == Put(st, "iteration", Get(st, "iteration", 1) + 2)

\* state["iteration"] = state.get("iteration", 1) + 1
IncrementIteration(st) == Put(st, "iteration", Get(st, "iteration", 1) + 1)

ResetAsSuccess(phases, st) ==
    [next_phase |-> phases[1],
     state |-> IF Get(st, "phase", None) = phases[Len(phases)]
               THEN IncrementIteration(st) ELSE st]

RestartCount(phases, st) ==
    [next_phase |-> phases[1], state |-> Put(st, "iteration", 1)]

\* the failure branch after the cleanup: reset to the first phase
FailureReset(phases, st) ==
    [next_phase |-> phases[1], state |-> IncrementIteration(st)]

\* the success branch
SuccessTransition(phases, st) ==
    LET nidx == next_idx(phases, current_idx(phases, Get(st, "phase", None)))
    IN  [next_phase |-> phases[nidx + 1],
         state |-> IF nidx = 0 THEN IncrementIteration(st) ELSE st]

IgnoreCleanupResult(result) == "reset"

\* where the failure branch goes on from the cleanup's result
AfterCleanup(result) == IF result THEN "reset" ELSE "done"

SkipSave(result) == "load_prompt"

AbortOnScriptFailure(result) == IF result THEN "open_state" ELSE "done"

\* where the engine goes on from the pre-phase script's result
AfterScript(result) == "open_state"

KeepStatus(st, phase) == Put(st, "phase", phase)

KeepPhase(st, phase) == Put(st, "status", "ACTIVE")

RebuildState(st, phase) ==
    [status |-> "ACTIVE", phase |-> phase, iteration |-> Get(st, "iteration", 1),
     history |-> <<>>, metrics |-> EmptyDict]

\* step 7: update state
UpdateState(st, phase) == Put(Put(st, "phase", phase), "status", "ACTIVE")

\* step 8: the name of the prompt file
prompt_path(phase) == <<PROMPTS_DIR, lower(phase), ".md">>

PlaceholderWithoutNames(path, phase, exists) ==
    IF exists
    THEN [kind |-> "file", path |-> path, phase |-> phase]
    ELSE [kind |-> "error", path |-> <<>>, phase |-> None]

\* step 8: the content of the prompt file, or the text that says that the
\* file at this path was not found for this phase
next_prompt(path, phase, exists) ==
    IF exists
    THEN [kind |-> "file", path |-> path, phase |-> phase]
    ELSE [kind |-> "error", path |-> path, phase |-> phase]

FirstIterationResponse(phase, content, st) ==
    [clearContext |-> TRUE,
     decision |-> "deny",
     reason |-> [label |-> phase, content |-> content],
     systemMessage |-> [phase |-> phase, iteration |-> 1]]

\* step 9: the response
Response(phase, content, st) ==
    [clearContext |-> TRUE,
     decision |-> "deny",
     reason |-> [label |-> phase, content |-> content],
     systemMessage |-> [phase |-> phase, iteration |-> Get(st, "iteration", 1)]]

\* ------------------------------------------------------- the engine's steps
Invoke(p) ==
    /\ pc[p] = "idle"
    /\ pc' = [pc EXCEPT ![p] = "load_config"]
    /\ UNCHANGED <<config, files, engineLocals, ipc, iout, ibefore>>

\* 1. load configuration
LoadConfig(p) ==
    /\ pc[p] = "load_config"
    /\ pc' = [pc EXCEPT ![p] =
                CASE config.kind = "absent" -> "done"
                  [] config.kind = "malformed" -> "raised"
                  [] OTHER -> "load_state"]
    /\ UNCHANGED <<config, files, engineLocals, ipc, iout, ibefore>>

\* 3. load state
LoadState(p) ==
    /\ pc[p] = "load_state"
    /\ LET f == files[STATE_FILE]
       IN  CASE f.kind = "absent" ->            \* os.path.exists is false
                  /\ pc' = [pc EXCEPT ![p] = "done"]
                  /\ UNCHANGED <<state, loaded, events>>
             [] f.kind \in {"dict", "array"} ->  \* json.load returns a value
                  /\ state' = [state EXCEPT ![p] = f.val]
                  /\ loaded' = [loaded EXCEPT ![p] = f]
                  /\ Log(p, <<Ev("read", STATE_FILE)>>)
                  /\ pc' = [pc EXCEPT ![p] = "decide"]
             [] OTHER ->                         \* json.JSONDecodeError
                  /\ loaded' = [loaded EXCEPT ![p] = f]
                  /\ Log(p, <<Ev("read", STATE_FILE)>>)
                  /\ pc' = [pc EXCEPT ![p] = "done"]
                  /\ UNCHANGED state
    /\ UNCHANGED <<config, files, next_phase, next_prompt_content, response,
                   ipc, iout, ibefore>>

\* 4., 5. check the agent's status and determine the transition
Decide(p) ==
    /\ pc[p] = "decide"
    /\ LET current_status == Get(state[p], "status", None)
           phases == Get(config.val, "phases", <<>>)
           t == SuccessTransition(phases, state[p])
       IN  CASE loaded[p].kind = "array" ->      \* state.get: AttributeError
                  /\ pc' = [pc EXCEPT ![p] = "raised"]
                  /\ UNCHANGED <<state, next_phase, events>>
             [] loaded[p].kind # "array" /\ ~Reported(current_status) ->
                  /\ pc' = [pc EXCEPT ![p] = "done"]
                  /\ UNCHANGED <<state, next_phase, events>>
             [] Reported(current_status) /\ phases = <<>> ->
                  /\ Log(p, <<Printed("No phases defined")>>)
                  /\ pc' = [pc EXCEPT ![p] = "done"]
                  /\ UNCHANGED <<state, next_phase>>
             [] Reported(current_status) /\ phases # <<>>
                    /\ current_status = "FAILED" ->
                  /\ Log(p, <<Printed("Initiating recovery")>>)
                  /\ pc' = [pc EXCEPT ![p] = "cleanup"]
                  /\ UNCHANGED <<state, next_phase>>
             [] OTHER ->
                  /\ next_phase' = [next_phase EXCEPT ![p] = t.next_phase]
                  /\ state' = [state EXCEPT ![p] = t.state]
                  /\ pc' = [pc EXCEPT ![p] = "script"]
                  /\ UNCHANGED events
    /\ UNCHANGED <<config, files, loaded, next_prompt_content, response, ipc, iout, ibefore>>

\* failure recovery: the cleanup command, then the reset to the first phase
Cleanup(p) ==
    /\ pc[p] = "cleanup"
    /\ LET cleanup_cmd == Get(config.val, "cleanup_command", None)
           phases == Get(config.val, "phases", <<>>)
           t == FailureReset(phases, state[p])
       IN  \E ok \in IF Truthy(cleanup_cmd) THEN BOOLEAN ELSE {TRUE} :
             LET r == run_command(cleanup_cmd, ok)
             IN  IF AfterCleanup(r.result) = "done"
                 THEN /\ Log(p, r.events \o <<Printed("Cleanup failed")>>)
                      /\ pc' = [pc EXCEPT ![p] = "done"]
                      /\ UNCHANGED <<state, next_phase>>
                 ELSE /\ Log(p, r.events)
                      /\ next_phase' = [next_phase EXCEPT ![p] = t.next_phase]
                      /\ state' = [state EXCEPT ![p] = t.state]
                      /\ pc' = [pc EXCEPT ![p] = "script"]
    /\ UNCHANGED <<config, files, loaded, next_prompt_content, response, ipc, iout, ibefore>>

\* 6. the pre-phase script
Script(p) ==
    /\ pc[p] = "script"
    /\ LET phase_scripts == Get(config.val, "phase_scripts", EmptyDict)
           script == Get(phase_scripts, next_phase[p], None)
       IN  \E ok \in IF Truthy(script) THEN BOOLEAN ELSE {TRUE} :
             LET r == run_command(script, ok)
             IN  /\ Log(p, IF r.result THEN r.events
                           ELSE r.events \o <<Printed("Pre-phase script failed")>>)
                 /\ pc' = [pc EXCEPT ![p] = AfterScript(r.result)]
    /\ UNCHANGED <<config, files, state, loaded, next_phase, next_prompt_content,
                   response, ipc, iout, ibefore>>

\* 7. update state; open(STATE_FILE, "w") truncates the file
OpenState(p) ==
    /\ pc[p] = "open_state"
    /\ state' = [state EXCEPT ![p] = UpdateState(@, next_phase[p])]
    /\ files' = [files EXCEPT ![STATE_FILE] = Truncated(@)]
    /\ Log(p, <<Ev("truncate", STATE_FILE)>>)
    /\ pc' = [pc EXCEPT ![p] = "dump"]
    /\ UNCHANGED <<config, loaded, next_phase, next_prompt_content, response, ipc, iout, ibefore>>

\* json.dump(state, f) and the close of the file
Dump(p) ==
    /\ pc[p] = "dump"
    /\ files' = [files EXCEPT ![STATE_FILE] = JsonDict(state[p])]
    /\ Log(p, <<Ev("write", STATE_FILE)>>)
    /\ pc' = [pc EXCEPT ![p] = "load_prompt"]
    /\ UNCHANGED <<config, state, loaded, next_phase, next_prompt_content,
                   response, ipc, iout, ibefore>>

\* 8. load the next prompt; the prompt file is there or it is not
LoadPrompt(p) ==
    /\ pc[p] = "load_prompt"
    /\ \E exists \in BOOLEAN :
         next_prompt_content' = [next_prompt_content EXCEPT ![p] =
            next_prompt(prompt_path(next_phase[p]), next_phase[p], exists)]
    /\ Log(p, <<Ev("read", "prompt")>>)
    /\ pc' = [pc EXCEPT ![p] = "emit"]
    /\ UNCHANGED <<config, files, state, loaded, next_phase, response, ipc, iout, ibefore>>

\* 9., 10. the response, written to standard output
Emit(p) ==
    /\ pc[p] = "emit"
    /\ response' = [response EXCEPT ![p] =
                       Response(next_phase[p], next_prompt_content[p], state[p])]
    /\ Log(p, <<Ev("stdout", "response")>>)
    /\ pc' = [pc EXCEPT ![p] = "done"]
    /\ UNCHANGED <<config, files, state, loaded, next_phase, next_prompt_content,
                   ipc, iout, ibefore>>

\* the process ends (normally, or with the exception that left main)
Exit(p) ==
    /\ pc[p] \in {"done", "raised"}
    /\ pc' = [pc EXCEPT ![p] = "idle"]
    /\ state' = [state EXCEPT ![p] = EmptyDict]
    /\ loaded' = [loaded EXCEPT ![p] = Absent]
    /\ next_phase' = [next_phase EXCEPT ![p] = None]
    /\ next_prompt_content' = [next_prompt_content EXCEPT ![p] = EmptyDict]
    /\ events' = [events EXCEPT ![p] = <<>>]
    /\ response' = [response EXCEPT ![p] = NoResponse]
    /\ UNCHANGED <<config, files, ipc, iout, ibefore>>

EngineStep(p) ==
    \/ LoadConfig(p) \/ LoadState(p) \/ Decide(p) \/ Cleanup(p) \/ Script(p)
    \/ OpenState(p) \/ Dump(p) \/ LoadPrompt(p) \/ Emit(p) \/ Exit(p)

\* ------------------------------------------------------- the bootstrapper
FreshFromZero(initial_phase) ==
    [status |-> "ACTIVE", phase |-> initial_phase, iteration |-> 0,
     history |-> <<>>, metrics |-> EmptyDict]

\* 3. the fresh state: a forced restart at iteration 1
FreshState(initial_phase) ==
    [status |-> "ACTIVE", phase |-> initial_phase, iteration |-> 1,
     history |-> <<>>, metrics |-> EmptyDict]

InitInvoke ==
    /\ ipc = "idle"
    /\ ipc' = "load_config"
    /\ ibefore' = files[state_file]
    /\ UNCHANGED <<config, files, pc, engineLocals, iout>>

SilentOnNoPhases(kind) ==
    IF kind = "absent"
    THEN <<Printed("Error: 'ralph_config.json' not found")>>
    ELSE <<>>

\* what init prints before it returns without a state: the config file is
\* not there (kind "absent"), or it defines no phases
InitError(kind) ==
    IF kind = "absent"
    THEN <<Printed("Error: 'ralph_config.json' not found")>>
    ELSE <<Printed("Error: No phases defined in config")>>

\* 1., 2. load the config and get the initial phase
InitLoadConfig ==
    /\ ipc = "load_config"
    /\ LET phases == Get(config.val, "phases", <<>>)
       IN  CASE config.kind = "absent" ->
                  /\ iout' = iout \o InitError(config.kind)
                  /\ ipc' = "done"
             [] config.kind = "malformed" ->
                  /\ ipc' = "raised"
                  /\ UNCHANGED iout
             [] config.kind = "dict" /\ phases = <<>> ->
                  /\ iout' = iout \o InitError(config.kind)
                  /\ ipc' = "done"
             [] OTHER ->
                  /\ ipc' = "open_state"
                  /\ UNCHANGED iout
    /\ UNCHANGED <<config, files, pc, engineLocals, ibefore>>

\* open(state_file, "w") truncates the file
InitOpenState ==
    /\ ipc = "open_state"
    /\ files' = [files EXCEPT ![state_file] = Truncated(@)]
    /\ ipc' = "dump"
    /\ UNCHANGED <<config, pc, engineLocals, iout, ibefore>>

\* json.dump(state, f) and the close of the file
InitDump ==
    /\ ipc = "dump"
    /\ files' = [files EXCEPT ![state_file] =
                    JsonDict(FreshState(Get(config.val, "phases", <<>>)[1]))]
    /\ ipc' = "report"
    /\ UNCHANGED <<config, pc, engineLocals, iout, ibefore>>

\* the confirmation, and 4. the first prompt with --print-prompt
InitReport ==
    /\ ipc = "report"
    /\ \E print_prompt \in BOOLEAN, exists \in BOOLEAN :
         iout' = iout \o <<Printed("Loop Initialized"), Printed("State saved")>>
                      \o (IF ~print_prompt THEN <<Printed("Ready to start")>>
                          ELSE IF exists THEN <<Printed("prompt")>>
                          ELSE <<Printed("Error: Prompt file not found")>>)
    /\ ipc' = "done"
    /\ UNCHANGED <<config, files, pc, engineLocals, ibefore>>

InitExit ==
    /\ ipc \in {"done", "raised"}
    /\ ipc' = "idle"
    /\ iout' = <<>>
    /\ ibefore' = Absent
    /\ UNCHANGED <<config, files, pc, engineLocals>>

InitStep ==
    \/ InitLoadConfig \/ InitOpenState \/ InitDump \/ InitReport \/ InitExit

\* ---------------------------------------------------------- the environment
Iteration(st) == Get(st, "iteration", 1)

UnknownPhase == "UNKNOWN"

\* what the agent records besides its status
Notes == {"nothing", "history", "metrics", "current_plan"}

Noted(st, note) ==
    CASE note = "history" /\ Len(Get(st, "history", <<>>)) < MaxHist ->
            Put(st, "history", Append(Get(st, "history", <<>>), "entry"))
      [] note = "metrics" -> Put(st, "metrics", [runs |-> 1])
      [] note = "current_plan" -> Put(st, "current_plan", "draft")
      [] OTHER -> st

\* the agent marks itself COMPLETED or FAILED in the state file
AgentReport(status, note) ==
    /\ files[STATE_FILE].kind = "dict"
    /\ Iteration(files[STATE_FILE].val) < MaxIter
    /\ files' = [files EXCEPT ![STATE_FILE] =
                    JsonDict(Noted(Put(@.val, "status", status), note))]
    /\ UNCHANGED <<config, pc, engineLocals, ipc, iout, ibefore>>

\* anyone else's change of the state file: a phase of any name, a status the
\* engine does not know, a record without its counter, damage, removal
ExternalEdit ==
    /\ files[STATE_FILE].kind = "dict"
    /\ \/ \E ph \in Range(SubSeq(PhaseNames, 1, MaxPhases)) \cup {UnknownPhase} :
            files' = [files EXCEPT ![STATE_FILE] = JsonDict(Put(@.val, "phase", ph))]
       \/ files' = [files EXCEPT ![STATE_FILE] = JsonDict(Put(@.val, "status", "PAUSED"))]
       \/ files' = [files EXCEPT ![STATE_FILE] = JsonDict(Drop(@.val, "iteration"))]
       \/ files' = [files EXCEPT ![STATE_FILE] = Corrupt]
       \/ files' = [files EXCEPT ![STATE_FILE] = JsonArray]
       \/ files' = [files EXCEPT ![STATE_FILE] = Absent]
    /\ UNCHANGED <<config, pc, engineLocals, ipc, iout, ibefore>>

\* a state file left by an earlier run under another configuration, where the
\* engine looks for one, found by a configuration that defines no phases
ExternalCreate ==
    /\ Get(config.val, "phases", <<>>) = <<>>
    /\ files[STATE_FILE].kind = "absent"
    /\ files' = [files EXCEPT ![STATE_FILE] = JsonDict(FreshState(PhaseNames[1]))]
    /\ UNCHANGED <<config, pc, engineLocals, ipc, iout, ibefore>>

\* ---------------------------------------------------------- specifications
\* One invocation at a time, as the caller's turn-taking serializes them: the
\* agent reports and a script starts only when no script is running.
Next ==
    \/ Quiet /\ Invoke(1)
    \/ EngineStep(1)
    \/ Quiet /\ InitInvoke
    \/ InitStep
    \/ Quiet /\ \E status \in {"COMPLETED", "FAILED"}, note \in Notes :
                    AgentReport(status, note)
    \/ Quiet /\ ExternalEdit
    \/ Quiet /\ ExternalCreate

Spec == Init /\ [][Next]_vars

\* Two engine invocations on one state file, interleaved step by step, as two
\* hook processes started without turn-taking run; the agent reports only
\* when neither is running. The state file is there, as the bootstrapper
\* leaves it, and the configuration names at least one phase.
ConcConfigs ==
    {JsonDict(MkConfig(phases, cleanup, scripts, FALSE)) :
        phases \in PhaseLists \ {<<>>}, cleanup \in BOOLEAN,
        scripts \in {EmptyDict, [ph \in Range(PhaseNames) |-> HookCmd]}}

InitConc ==
    /\ config \in ConcConfigs
    /\ files = [path \in Paths |->
                   IF path = STATE_FILE
                   THEN JsonDict(FreshState(config.val.phases[1]))
                   ELSE Absent]
    /\ pc = [p \in Engines |-> "idle"]
    /\ state = [p \in Engines |-> EmptyDict]
    /\ loaded = [p \in Engines |-> Absent]
    /\ next_phase = [p \in Engines |-> None]
    /\ next_prompt_content = [p \in Engines |-> EmptyDict]
    /\ events = [p \in Engines |-> <<>>]
    /\ response = [p \in Engines |-> NoResponse]
    /\ ipc = "idle"
    /\ iout = <<>>
    /\ ibefore = Absent

NextConc ==
    \/ \E p \in Engines : Invoke(p)
    \/ \E p \in Engines : EngineStep(p)
    \/ Quiet /\ \E status \in {"COMPLETED", "FAILED"} : AgentReport(status, "nothing")

SpecConc == InitConc /\ [][NextConc]_vars

\* ------------------------------------------------------------- properties
\* The configured phases, the state file of the engine, and what an engine
\* invocation read and did.
Phases == Get(config.val, "phases", <<>>)

StateFile == files[STATE_FILE]

Did(p, e) == \E i \in DOMAIN events[p] : events[p][i] = e

Wrote(p) == Did(p, Ev("write", STATE_FILE))

Emitted(p) == Did(p, Ev("stdout", "response"))

\* the invocation read a state record with this status
Read(p, status) ==
    loaded[p].kind = "dict" /\ Get(loaded[p].val, "status", None) = status

\* the shell command was run and exited with a failure
CommandFailed(p, command) ==
    \E i \in DOMAIN events[p] :
        /\ events[p][i] = Ran(command)
        /\ i + 1 \in DOMAIN events[p]
        /\ events[p][i + 1] = Printed("Command failed")

\* an invocation that found a reported status and phases to go through has ended
Ended(p, status) == pc[p] = "done" /\ Read(p, status) /\ Phases # <<>>

\* C1: after an invocation that read status COMPLETED with a non-empty phase
\* list, the state file holds the phase that follows the one read, cyclically,
\* and the first phase when the phase read is not in the list.
C1_SuccessNextPhase ==
    \A p \in Engines :
        Ended(p, "COMPLETED") =>
            /\ StateFile.kind = "dict"
            /\ \A i \in 1..Len(Phases) :
                  Get(loaded[p].val, "phase", None) = Phases[i]
                      => StateFile.val.phase = Phases[(i % Len(Phases)) + 1]
            /\ Get(loaded[p].val, "phase", None) \notin Range(Phases)
                  => StateFile.val.phase = Phases[1]

\* C1 witness: the last of several phases completed and the loop wrapped
C1_Witness ==
    \E p \in Engines :
        /\ Ended(p, "COMPLETED")
        /\ Len(Phases) >= 2
        /\ loaded[p].val.phase = Phases[Len(Phases)]
        /\ StateFile.val.phase = Phases[1]

\* C1 witness of the fallback: a phase that is not in the list was completed
C1_FallbackWitness ==
    \E p \in Engines :
        /\ Ended(p, "COMPLETED")
        /\ loaded[p].val.phase = UnknownPhase
        /\ StateFile.val.phase = Phases[1]

\* C2: after an invocation that read status COMPLETED, the iteration in the
\* state file is the one read plus 1 if the phase read is the last configured
\* phase, and the one read for every other phase, in the list or not.
C2_SuccessIteration ==
    \A p \in Engines :
        Ended(p, "COMPLETED") =>
            /\ StateFile.kind = "dict"
            /\ Iteration(StateFile.val) =
                  IF Get(loaded[p].val, "phase", None) = Phases[Len(Phases)]
                  THEN Iteration(loaded[p].val) + 1
                  ELSE Iteration(loaded[p].val)

\* C2, for the phases of the list only: the iteration rises by 1 exactly when
\* the last phase completed (the part of C2 the code keeps)
C2_KnownPhaseIteration ==
    \A p \in Engines :
        (Ended(p, "COMPLETED") /\ Get(loaded[p].val, "phase", None) \in Range(Phases)) =>
            /\ StateFile.kind = "dict"
            /\ Iteration(StateFile.val) =
                  IF Get(loaded[p].val, "phase", None) = Phases[Len(Phases)]
                  THEN Iteration(loaded[p].val) + 1
                  ELSE Iteration(loaded[p].val)

\* C3: after an invocation that read status FAILED and whose cleanup command
\* was absent or succeeded, the state file holds the first phase, status
\* ACTIVE and the iteration read plus 1, whatever phase was read.
C3_FailureReset ==
    \A p \in Engines :
        (Ended(p, "FAILED") /\ ~CommandFailed(p, CleanupCmd)) =>
            /\ StateFile.kind = "dict"
            /\ StateFile.val.phase = Phases[1]
            /\ StateFile.val.status = "ACTIVE"
            /\ "iteration" \in DOMAIN StateFile.val
            /\ StateFile.val.iteration = Iteration(loaded[p].val) + 1

\* C3 witness: a failure in a middle phase, the cleanup command run with success
C3_Witness ==
    \E p \in Engines :
        /\ Ended(p, "FAILED")
        /\ Did(p, Ran(CleanupCmd))
        /\ ~CommandFailed(p, CleanupCmd)
        /\ Len(Phases) >= 3
        /\ loaded[p].val.phase = Phases[2]
        /\ StateFile.val.phase = Phases[1]

\* C4: once the cleanup command has failed, the invocation ends with the state
\* file as it was read (status FAILED, same phase, iteration and other keys),
\* with no pre-phase script run, nothing written and no payload.
C4_CleanupFailureAborts ==
    \A p \in Engines :
        CommandFailed(p, CleanupCmd) =>
            /\ pc[p] = "done"
            /\ Read(p, "FAILED")
            /\ StateFile = loaded[p]
            /\ \A i \in DOMAIN events[p] :
                  events[p][i].ev \in {"run", "truncate", "write", "stdout"}
                      => events[p][i] = Ran(CleanupCmd)
            /\ response[p] = NoResponse

\* C4 witness: the cleanup failed in an invocation that follows a transition,
\* on a configuration with a script for the first phase
C4_Witness ==
    \E p \in Engines :
        /\ CommandFailed(p, CleanupCmd)
        /\ pc[p] = "done"
        /\ Iteration(loaded[p].val) >= 2
        /\ Phases[1] \in DOMAIN Get(config.val, "phase_scripts", EmptyDict)

\* C5: an invocation that read a status other than COMPLETED and FAILED does
\* nothing but read: the state file stays as read, no command is run, nothing
\* is printed or written, no payload is emitted, and the invocation ends.
C5_NoOpUnlessReported ==
    \A p \in Engines :
        (loaded[p].kind = "dict"
            /\ Get(loaded[p].val, "status", None) \notin {"COMPLETED", "FAILED"}) =>
            /\ pc[p] \in {"decide", "done"}
            /\ StateFile = loaded[p]
            /\ events[p] = <<Ev("read", STATE_FILE)>>
            /\ response[p] = NoResponse
            /\ state[p] = loaded[p].val
            /\ next_phase[p] = None

\* C5 witness: an invocation that ended on status ACTIVE after a transition
\* had raised the iteration
C5_Witness ==
    \E p \in Engines :
        /\ pc[p] = "done"
        /\ Read(p, "ACTIVE")
        /\ Iteration(loaded[p].val) >= 2
        /\ Phases # <<>>

\* the state file holds a record whose status is a report of the agent
ReportPending ==
    StateFile.kind = "dict"
        /\ Get(StateFile.val, "status", None) \in {"COMPLETED", "FAILED"}

\* C6: the record an engine invocation has written has status ACTIVE, and a
\* step that makes the state file's status COMPLETED or FAILED is no step of
\* the engine or the bootstrapper: it leaves both where they are.
C6_EngineWritesActive ==
    /\ [](\A p \in Engines :
            Wrote(p) => StateFile.kind = "dict" /\ StateFile.val.status = "ACTIVE")
    /\ [][(~ReportPending /\ ReportPending') => (pc' = pc /\ ipc' = ipc)]_vars

\* C6 witness: the engine has written over a record whose status was FAILED
C6_Witness ==
    \E p \in Engines :
        Wrote(p) /\ Read(p, "FAILED") /\ StateFile.val.status = "ACTIVE"

\* the bootstrapper has written its record and not yet ended
InitWrote ==
    ipc = "report" \/ \E i \in DOMAIN iout : iout[i] = Printed("State saved")

\* C7: the record the engine has written, and the record the bootstrapper has
\* written, hold a phase of the configured list, whatever phase was read.
C7_PhaseMembership ==
    /\ \A p \in Engines :
          Wrote(p) => StateFile.kind = "dict" /\ StateFile.val.phase \in Range(Phases)
    /\ InitWrote =>
          /\ files[state_file].kind = "dict"
          /\ files[state_file].val.phase \in Range(Phases)

\* C7 witness: the engine has written after it read a phase not in the list
C7_Witness ==
    \E p \in Engines :
        /\ Wrote(p)
        /\ loaded[p].val.phase \notin Range(Phases)
        /\ StateFile.val.phase \in Range(Phases)

\* a file holds a record where it held (or, truncated for the write, had just
\* held) a record with a greater iteration
IterationLowered(path) ==
    /\ files[path].kind \in {"dict", "empty"}
    /\ files'[path].kind = "dict"
    /\ Iteration(files'[path].val) < Iteration(files[path].val)

\* C8: no step of an engine invocation, no status report of the agent and no
\* step of the bootstrapper lowers the iteration a state file holds.
C8_IterationNeverDecreases ==
    [][(EngineStep(1) \/ InitStep
            \/ \E status \in {"COMPLETED", "FAILED"}, note \in Notes :
                  AgentReport(status, note))
        => \A path \in Paths : ~IterationLowered(path)]_vars

\* C8 as amended: no step of an engine invocation and no status report of the
\* agent lowers the iteration; the bootstrapper's write sets it to 1.
C8_IterationNeverDecreasesButInit ==
    /\ [][(EngineStep(1)
              \/ \E status \in {"COMPLETED", "FAILED"}, note \in Notes :
                    AgentReport(status, note))
          => \A path \in Paths : ~IterationLowered(path)]_vars
    /\ [][InitDump => Iteration(files'[state_file].val) = 1]_vars

\* C8 witness: the engine has written an iteration greater than the one read
C8_Witness ==
    \E p \in Engines :
        /\ Wrote(p)
        /\ Read(p, "FAILED")
        /\ Iteration(StateFile.val) > Iteration(loaded[p].val)
        /\ Iteration(loaded[p].val) >= 2

\* the keys of a state record that are the caller's
CallerKeys(st) == (DOMAIN st) \ {"status", "phase", "iteration"}

\* C9: the record the engine has written holds history, metrics and every
\* other key besides status, phase and iteration with the value read, and no
\* other such key.
C9_CallerDataPreserved ==
    \A p \in Engines :
        Wrote(p) =>
            /\ StateFile.kind = "dict"
            /\ CallerKeys(StateFile.val) = CallerKeys(loaded[p].val)
            /\ \A k \in CallerKeys(loaded[p].val) : StateFile.val[k] = loaded[p].val[k]

\* C9 witness: written back with a history entry, metrics and a custom key
C9_Witness ==
    \E p \in Engines :
        /\ Wrote(p)
        /\ "current_plan" \in DOMAIN StateFile.val
        /\ Get(StateFile.val, "history", <<>>) # <<>>
        /\ Get(StateFile.val, "metrics", EmptyDict) # EmptyDict

\* the phase and iteration of the transition from the record read, when the
\* cleanup does not stop it
TransitionPhase(p) ==
    LET ph == Get(loaded[p].val, "phase", None)
    IN  IF Read(p, "FAILED") \/ ph \notin Range(Phases) \/ ph = Phases[Len(Phases)]
        THEN Phases[1]
        ELSE Phases[(CHOOSE i \in 1..Len(Phases) : Phases[i] = ph) + 1]

TransitionIteration(p) ==
    IF Read(p, "FAILED") \/ TransitionPhase(p) = Phases[1]
    THEN Iteration(loaded[p].val) + 1
    ELSE Iteration(loaded[p].val)

\* C10: an invocation in which the pre-phase script failed ends with the phase,
\* status ACTIVE and iteration of the transition in the state file, and with
\* the payload emitted.
C10_ScriptFailureNonFatal ==
    \A p \in Engines :
        (pc[p] = "done" /\ CommandFailed(p, HookCmd)) =>
            /\ StateFile.kind = "dict"
            /\ StateFile.val.phase = TransitionPhase(p)
            /\ StateFile.val.status = "ACTIVE"
            /\ Iteration(StateFile.val) = TransitionIteration(p)
            /\ Wrote(p)
            /\ Emitted(p)
            /\ response[p] # NoResponse

\* C10 witness: the script of the second phase failed on the success path
C10_Witness ==
    \E p \in Engines :
        /\ pc[p] = "done"
        /\ CommandFailed(p, HookCmd)
        /\ Read(p, "COMPLETED")
        /\ Len(Phases) >= 2
        /\ StateFile.val.phase = Phases[2]

\* the record of the transition from the record read
TransitionRecord(p) ==
    Put(Put(Put(loaded[p].val, "phase", TransitionPhase(p)), "status", "ACTIVE"),
        "iteration", TransitionIteration(p))

\* the prompt file of the invocation's next phase was not found
PromptMissing(p) == Get(next_prompt_content[p], "kind", None) = "error"

\* C11: an invocation that did not find the prompt file of the next phase has
\* written the phase, status ACTIVE and iteration of the transition, and ends
\* with a payload whose reason is the text that names the prompt path of the
\* phase written and that phase.
C11_MissingPromptNonFatal ==
    \A p \in Engines :
        PromptMissing(p) =>
            /\ pc[p] \in {"emit", "done"}
            /\ Wrote(p)
            /\ StateFile.kind = "dict"
            /\ StateFile.val.phase = TransitionPhase(p)
            /\ StateFile.val.status = "ACTIVE"
            /\ Iteration(StateFile.val) = TransitionIteration(p)
            /\ pc[p] = "done" =>
                  /\ Emitted(p)
                  /\ response[p] # NoResponse
                  /\ response[p].reason.label = StateFile.val.phase
                  /\ response[p].reason.content =
                        [kind |-> "error",
                         path |-> <<PROMPTS_DIR, lower(StateFile.val.phase), ".md">>,
                         phase |-> StateFile.val.phase]

\* C11 witness: a failure reset ended with the placeholder in its payload
C11_Witness ==
    \E p \in Engines :
        /\ pc[p] = "done"
        /\ PromptMissing(p)
        /\ Read(p, "FAILED")
        /\ Emitted(p)

\* the configuration is absent, is not JSON, or defines no phases
ConfigInapplicable == config.kind # "dict" \/ Phases = <<>>

\* the invocation did nothing but read
OnlyRead(p) ==
    /\ \A i \in DOMAIN events[p] : events[p][i].ev = "read"
    /\ response[p] = NoResponse

\* C12: with the configuration absent, not JSON or without phases, an engine
\* invocation raises no exception, runs and writes nothing and prints nothing.
C12_SilentOnInapplicableConfig ==
    \A p \in Engines :
        ConfigInapplicable => pc[p] # "raised" /\ OnlyRead(p)

\* C12, for the absent configuration only (the part of C12 the code keeps)
C12_SilentOnAbsentConfig ==
    \A p \in Engines :
        config.kind = "absent" =>
            pc[p] \in {"idle", "load_config", "done"} /\ events[p] = <<>>
                /\ response[p] = NoResponse

\* the invocation is past its read of the state file
PastLoadState(p) == pc[p] \notin {"idle", "load_config", "load_state"}

\* C13: an invocation that found no state file, or one whose content is not a
\* state record, raises no exception, does nothing but read and leaves the
\* file as it found it.
C13_SilentOnBadState ==
    \A p \in Engines :
        (config.kind = "dict" /\ PastLoadState(p) /\ loaded[p].kind # "dict") =>
            /\ pc[p] \in {"decide", "done"}
            /\ OnlyRead(p)
            /\ StateFile = loaded[p]

\* C13, for the missing file and the file that is not JSON (the part of C13
\* the code keeps)
C13_SilentOnAbsentOrUndecodable ==
    \A p \in Engines :
        (config.kind = "dict" /\ PastLoadState(p)
            /\ loaded[p].kind \in {"absent", "corrupt", "empty"}) =>
            /\ pc[p] = "done"
            /\ OnlyRead(p)
            /\ StateFile = loaded[p]

\* C14: the record the bootstrapper has written is status ACTIVE, the first
\* phase, iteration 1, empty history and empty metrics and nothing else,
\* whatever the file held before, a record the bootstrapper wrote included.
C14_InitStartsFresh ==
    InitWrote =>
        files[state_file] =
            JsonDict([status |-> "ACTIVE", phase |-> Phases[1], iteration |-> 1,
                      history |-> <<>>, metrics |-> EmptyDict])

\* C14 witness: written over a failed record of a later iteration with history,
\* metrics and a custom key
C14_Witness ==
    /\ InitWrote
    /\ ibefore.kind = "dict"
    /\ ibefore.val.status = "FAILED"
    /\ Iteration(ibefore.val) >= 2
    /\ Get(ibefore.val, "history", <<>>) # <<>>
    /\ "current_plan" \in DOMAIN ibefore.val

\* C14 witness of the second run: written over the bootstrapper's own record
C14_TwiceWitness ==
    /\ InitWrote
    /\ ibefore = files[state_file]

\* C15: with the configuration absent or without phases the bootstrapper
\* prints one error message and ends; its state file stays as the run found it.
C15_InitFailsLoudly ==
    (config.kind = "absent" \/ (config.kind = "dict" /\ Phases = <<>>)) =>
        /\ ipc \in {"idle", "load_config", "done"}
        /\ ipc # "idle" => files[state_file] = ibefore
        /\ ipc = "done" =>
              /\ Len(iout) = 1
              /\ iout[1] \in {Printed("Error: 'ralph_config.json' not found"),
                              Printed("Error: No phases defined in config")}

\* C15 witness: no phases defined, and a state file that was there is kept
C15_Witness ==
    /\ ipc = "done"
    /\ config.kind = "dict"
    /\ Phases = <<>>
    /\ ibefore.kind = "dict"
    /\ files[state_file] = ibefore

\* what the invocation wrote to standard output, in order
IsOutput(e) == e.ev \in {"print", "stdout"}
Stdout(p) == SelectSeq(events[p], IsOutput)

\* C16: an invocation that completed a transition has written the payload to
\* standard output and nothing else; any other has written no payload.
C16_OnlyPayloadOnStdout ==
    \A p \in Engines :
        pc[p] = "done" =>
            IF Wrote(p)
            THEN Stdout(p) = <<Ev("stdout", "response")>>
            ELSE ~Emitted(p)

\* C16, without "and nothing else": a payload is written, once, exactly by the
\* invocations that complete a transition
C16_PayloadIffTransition ==
    \A p \in Engines :
        pc[p] = "done" =>
            /\ Emitted(p) <=> Wrote(p)
            /\ Cardinality({i \in DOMAIN events[p] :
                               events[p][i] = Ev("stdout", "response")}) <= 1

\* C17: the payload an invocation has emitted sets clearContext, is labelled
\* with the phase in the state file, and its message names that phase and the
\* iteration in the state file.
C17_PayloadAgreesWithState ==
    \A p \in Engines :
        Emitted(p) =>
            /\ Wrote(p)
            /\ StateFile.kind = "dict"
            /\ response[p].clearContext = TRUE
            /\ response[p].reason.label = StateFile.val.phase
            /\ response[p].systemMessage.phase = StateFile.val.phase
            /\ response[p].systemMessage.iteration = Iteration(StateFile.val)

\* C17 witness: the payload of a failure reset to a second or later iteration
C17_Witness ==
    \E p \in Engines :
        /\ Emitted(p)
        /\ Read(p, "FAILED")
        /\ response[p].systemMessage.iteration >= 2
        /\ response[p].systemMessage.phase = Phases[1]

\* how often, and where, the invocation did something
Count(p, e) == Cardinality({i \in DOMAIN events[p] : events[p][i] = e})
Pos(p, e) == CHOOSE i \in DOMAIN events[p] : events[p][i] = e

\* a happened before b, if both happened
Before(p, a, b) == (Did(p, a) /\ Did(p, b)) => Pos(p, a) < Pos(p, b)

\* the steps of one invocation that C19 orders
Truncate == Ev("truncate", STATE_FILE)
Write == Ev("write", STATE_FILE)
ReadPrompt == Ev("read", "prompt")
Payload == Ev("stdout", "response")
OrderedSteps == <<Ran(CleanupCmd), Ran(HookCmd), Truncate, Write, ReadPrompt, Payload>>

\* C19: in one invocation the cleanup command, the hook, the write of the
\* state file, the read of the prompt and the payload each happen at most once
\* and in this order; a command has returned before the next step starts, the
\* hook never runs on the failure path before a configured cleanup has run, and
\* an emitted payload finds the new state in the state file.
C19_StepOrder ==
    \A p \in Engines :
        /\ \A i \in DOMAIN OrderedSteps : Count(p, OrderedSteps[i]) <= 1
        /\ \A i, j \in DOMAIN OrderedSteps :
              i < j => Before(p, OrderedSteps[i], OrderedSteps[j])
        /\ (Did(p, Ran(HookCmd)) /\ Read(p, "FAILED")
                /\ Truthy(Get(config.val, "cleanup_command", None))) =>
              Did(p, Ran(CleanupCmd))
        /\ Did(p, Write) => Did(p, Truncate)
        /\ Did(p, ReadPrompt) => Did(p, Write)
        /\ Emitted(p) =>
              /\ Did(p, ReadPrompt)
              /\ StateFile = JsonDict(state[p])
              /\ StateFile.val.phase = next_phase[p]
              /\ StateFile.val.status = "ACTIVE"

\* C19 witness: a failure reset that ran the cleanup and the hook, wrote and
\* emitted
C19_Witness ==
    \E p \in Engines :
        /\ Read(p, "FAILED")
        /\ Did(p, Ran(CleanupCmd))
        /\ Did(p, Ran(HookCmd))
        /\ Did(p, Write)
        /\ Emitted(p)

\* C18: an invocation that read the state file while another was saving it
\* read a complete record, the one before the save or the saved one: under
\* SpecConc, where the file always exists and only engines and the agent
\* write it, every read yields a record.
C18_AtomicSave ==
    \A p \in Engines : PastLoadState(p) => loaded[p].kind = "dict"

\* an invocation that read a reported status and has phases to move through
Transits(p) ==
    /\ PastLoadState(p)
    /\ loaded[p].kind = "dict"
    /\ Read(p, "COMPLETED") \/ Read(p, "FAILED")
    /\ Phases # <<>>

\* C20: while invocations that read the agent's report are running or have
\* just ended, however they interleave, the state file holds (when it holds a
\* record at all) the reported record or the record of the one transition from
\* it: the iteration is the reported one or one more, never more.
C20_NoDoubleAdvance ==
    \A p \in Engines :
        Transits(p) =>
            /\ StateFile.kind \in {"dict", "empty"}
            /\ StateFile.kind = "dict" =>
                  /\ StateFile.val \in {loaded[p].val, TransitionRecord(p)}
                  /\ Iteration(StateFile.val) - Iteration(loaded[p].val) \in {0, 1}
            /\ (pc[p] = "done" /\ Wrote(p) /\ StateFile.kind = "dict") =>
                  StateFile.val = TransitionRecord(p)

\* C20 witness: two invocations read the same failure report, both ran the
\* cleanup and the hook, both wrote and both emitted a payload
C20_Witness ==
    /\ \A p \in Engines :
          /\ pc[p] = "done"
          /\ Read(p, "FAILED")
          /\ Did(p, Ran(CleanupCmd))
          /\ Did(p, Ran(HookCmd))
          /\ Wrote(p)
          /\ Emitted(p)
    /\ loaded[1] = loaded[2]
    /\ StateFile.val = TransitionRecord(1)

====
